---- MODULE Spec2Model ----
(***************************************************************************)
(* DataSourceWithBackend (packages/grafana-runtime): the client that       *)
(* batches query targets into one POST to /api/ds/query, normalises the    *)
(* reply, translates annotation requests into that pipeline, and offers    *)
(* the resource / health passthroughs.                                     *)
(*                                                                         *)
(* The source file holds two revisions of the class.  query(), the         *)
(* resource calls and the health calls are the same text in both; only     *)
(* annotationQuery differs, and each revision of it is an action of its    *)
(* own (annotationQuery: lines 159-189, annotationQuery2: lines 393-427).  *)
(***************************************************************************)
EXTENDS Integers, Sequences, FiniteSets, TLC

VARIABLES
    config,       \* the runtime configuration store (import { config })
    overrides,    \* the virtual methods the plugin subclass overrides
    inflight,     \* transport calls issued and not yet settled, oldest first
    fetchCount,   \* number of getBackendSrv().fetch() invocations so far
    dispatched,   \* number of query() calls made with a non-empty, resolvable batch
    last,         \* the event the caller is looking at (a call returning, a result
                  \* delivered); Idle once it has taken note of it
    now,          \* Date.now()
    window        \* the browser's global object

vars == <<config, overrides, inflight, fetchCount, dispatched, last, now, window>>

----------------------------------------------------------------------------
(* Bounds of the model *)

MaxTargets == 2      \* longest request.targets
MaxFrames == 2       \* most frames in one backend reply
MaxCalls == 2        \* most dispatching query() calls in one behaviour
MaxInFlight == 2     \* most transport calls outstanding at once
MaxClock == 2        \* last millisecond the clock reaches

----------------------------------------------------------------------------
(* Values *)

ExpressionDatasourceID == "__expr__"

HealthStatus == [Unknown |-> "UNKNOWN", OK |-> "OK", Error |-> "ERROR"]

\* the instance; id is set by the DataSourceApi constructor from instanceSettings
this == [id |-> 1]

\* q.datasource of a target that names no datasource (undefined or '': both falsy)
NoDatasource == ""

\* { ...base, ...over }: object spread, later keys win
Spread(base, over) == over @@ base

Min(S) == CHOOSE x \in S : \A y \in S : x <= y

Range(s) == {s[i] : i \in DOMAIN s}

RemoveAt(s, i) == SubSeq(s, 1, i - 1) \o SubSeq(s, i + 1, Len(s))

\* sequences over S of length at most n
SeqsUpTo(S, n) == UNION {[1..k -> S] : k \in 0..n}

----------------------------------------------------------------------------
(* The configuration store: organisation id, default datasource name and   *)
(* the name -> settings table.  "gone" is a name the table does not hold.  *)

Configs ==
    {[bootData |-> [user |-> [orgId |-> 7]],
      defaultDatasource |-> d,
      datasources |-> [n \in {"prom", "loki"} |-> [id |-> IF n = "prom" THEN 2 ELSE 3]]]
        : d \in {"prom", "gone"}}

Virtuals == {"filterQuery", "applyTemplateVariables", "prepareAnnotationQuery"}

----------------------------------------------------------------------------
(* Inputs of query() *)

DatasourceRefs == {NoDatasource, ExpressionDatasourceID, "default", "prom", "gone"}

RefIdOf(i) == "q" \o ToString(i)

\* request.targets: refIds are given by position, every target carries the
\* template expression "$v"
TargetLists ==
    UNION {{[i \in 1..k |-> [refId |-> RefIdOf(i), datasource |-> f[i].datasource,
                             hide |-> f[i].hide, expr |-> "$v"]]
              : f \in [1..k -> [datasource : DatasourceRefs, hide : BOOLEAN]]}
             : k \in 0..MaxTargets}

TimeRange == [from |-> 1000, to |-> 2000]

QueryRequests ==
    {[targets |-> ts, requestId |-> "Q", intervalMs |-> 15000, maxDataPoints |-> 500,
      scopedVars |-> [v |-> "up"]] : ts \in TargetLists}
    \cup
    {[targets |-> ts, requestId |-> "Q", intervalMs |-> 15000, maxDataPoints |-> 500,
      scopedVars |-> [v |-> "up"], range |-> TimeRange] : ts \in TargetLists}

----------------------------------------------------------------------------
(* The virtual methods *)

\* a subclass's filterQuery, when it overrides it: hidden targets are skipped
filterQuery(q) == ~q.hide

\* the base class returns the query itself; an override interpolates the
\* scoped variables into the expression
applyTemplateVariables(q, scopedVars) ==
    IF "applyTemplateVariables" \in overrides /\ q.expr = "$v" /\ "v" \in DOMAIN scopedVars
    THEN [q EXCEPT !.expr = scopedVars.v]
    ELSE q

----------------------------------------------------------------------------
(* query(): the synchronous part, up to the call of fetch *)

\* (mutation) the filter left out
filterTargetsSkipped(request) == request.targets

\* (mutation) the kept targets come out last first
filterTargetsReversed(request) ==
    LET kept == IF "filterQuery" \in overrides
                THEN SelectSeq(request.targets, filterQuery)
                ELSE request.targets
    IN  [i \in DOMAIN kept |-> kept[Len(kept) + 1 - i]]

\* targets.filter(q => this.filterQuery(q)), when filterQuery is defined
filterTargets(request) ==
    IF "filterQuery" \in overrides
    THEN SelectSeq(request.targets, filterQuery)
    ELSE request.targets

\* (mutation) a name the table lacks falls back to the default datasource
dsNameLenient(q) ==
    IF q.datasource = "default" \/ q.datasource \notin DOMAIN config.datasources
    THEN config.defaultDatasource
    ELSE q.datasource

\* dsName of a target that names a datasource
dsName(q) == IF q.datasource = "default" THEN config.defaultDatasource ELSE q.datasource

\* (mutation) `datasourceId = ds.id` left out
lookupDatasourceIdSelf(q) == this.id

\* the datasourceId the map callback gives a target that names a datasource:
\* the table's entry for dsName (the caller has checked that there is one)
lookupDatasourceId(q) == config.datasources[dsName(q)].id

\* intervalMs / maxDataPoints as destructured from the request: a key the
\* request lacks is undefined and does not reach the wire
sharedHints(request) ==
    [k \in {"intervalMs", "maxDataPoints"} \cap DOMAIN request |-> request[k]]

\* (mutation) the expression target goes through applyTemplateVariables too
mapExpressionSubstituted(q) ==
    [kind |-> "return",
     value |-> Spread(applyTemplateVariables(q, [v |-> "up"]),
                      [datasourceId |-> this.id, orgId |-> config.bootData.user.orgId]),
     applied |-> <<q>>,
     input |-> q]

\* (mutation) the fields are assigned onto the target itself, which is returned
mapExpressionInPlace(q) ==
    [kind |-> "return",
     value |-> Spread(q, [datasourceId |-> this.id, orgId |-> config.bootData.user.orgId]),
     applied |-> <<>>,
     input |-> Spread(q, [datasourceId |-> this.id, orgId |-> config.bootData.user.orgId])]

\* the callback's early return for an expression target
mapExpression(q) ==
    [kind |-> "return",
     value |-> Spread(q, [datasourceId |-> this.id, orgId |-> config.bootData.user.orgId]),
     applied |-> <<>>,
     input |-> q]

\* targets.map(q => ...): one run of the callback.  It returns the payload
\* target or throws; applied lists the arguments it handed to
\* applyTemplateVariables; input is the target q as the run leaves it (the
\* callback spreads q into a new object and assigns nothing on q).
mapTarget(q, request) ==
    IF q.datasource = ExpressionDatasourceID
    THEN mapExpression(q)
    ELSE IF q.datasource # NoDatasource /\ dsName(q) \notin DOMAIN config.datasources
    THEN [kind |-> "throw",
          error |-> [message |-> "Unknown Datasource: " \o q.datasource],
          applied |-> <<>>,
          input |-> q]
    ELSE [kind |-> "return",
          value |-> Spread(applyTemplateVariables(q, request.scopedVars),
                           Spread(sharedHints(request),
                                  [datasourceId |-> IF q.datasource # NoDatasource
                                                    THEN lookupDatasourceId(q)
                                                    ELSE this.id,
                                   orgId |-> config.bootData.user.orgId])),
          applied |-> <<q>>,
          input |-> q]

\* the applyTemplateVariables arguments of the first n runs of the callback
RECURSIVE appliedIn(_, _)
appliedIn(runs, n) ==
    IF n = 0 THEN <<>> ELSE appliedIn(runs, n - 1) \o runs[n].applied

\* (mutation) the range goes out as the native object only
buildBodyNativeOnly(queries, request) ==
    IF "range" \in DOMAIN request
    THEN [queries |-> queries, range |-> request.range]
    ELSE [queries |-> queries]

\* the request body: the queries, and the range block when a range is given
buildBody(queries, request) ==
    IF "range" \in DOMAIN request
    THEN [queries |-> queries,
          range |-> request.range,
          from |-> ToString(request.range.from),
          to |-> ToString(request.range.to)]
    ELSE [queries |-> queries]

\* What query(request) does before it returns: throws (the first exception of
\* the map, which ends it), returns of({data: []}), or calls fetch with the
\* options given.  applied lists the targets handed to applyTemplateVariables
\* on the way, inputs the targets the map callback ran on, as it left them.
queryOutcome(request) ==
    LET targets == filterTargets(request)
        runs == [i \in DOMAIN targets |-> mapTarget(targets[i], request)]
        bad == {i \in DOMAIN runs : runs[i].kind = "throw"}
    IN  IF bad # {}
        THEN [kind |-> "throw",
              error |-> runs[Min(bad)].error,
              applied |-> appliedIn(runs, Min(bad) - 1),
              inputs |-> [i \in 1..Min(bad) |-> runs[i].input]]
        ELSE LET queries == [i \in DOMAIN runs |-> runs[i].value]
             IN  IF Len(queries) = 0
                 THEN [kind |-> "of", value |-> [data |-> <<>>], applied |-> <<>>,
                       inputs |-> <<>>]
                 ELSE [kind |-> "fetch",
                       options |-> [url |-> "/api/ds/query",
                                    method |-> "POST",
                                    data |-> buildBody(queries, request),
                                    requestId |-> request.requestId],
                       applied |-> appliedIn(runs, Len(runs)),
                       inputs |-> [i \in DOMAIN runs |-> runs[i].input]]

\* the batch is non-empty after the filter and every target resolves
Dispatchable(request) ==
    LET kept == IF "filterQuery" \in overrides
                THEN SelectSeq(request.targets, LAMBDA q : ~q.hide)
                ELSE request.targets
    IN  /\ Len(kept) > 0
        /\ \A i \in DOMAIN kept :
              \/ kept[i].datasource \in {NoDatasource, ExpressionDatasourceID}
              \/ kept[i].datasource = "default"
                    /\ config.defaultDatasource \in DOMAIN config.datasources
              \/ kept[i].datasource \in DOMAIN config.datasources \ {"default"}

----------------------------------------------------------------------------
(* The transport and the decoding routine *)

Frames == {"f1", "f2"}

FrameSeqs == SeqsUpTo(Frames, MaxFrames)

\* what the observable returned by fetch delivers: a reply (next), or an error.
\* A reply may hold a frame that cannot be decoded; an error is a network
\* failure without payload or a non-2xx reply with its payload.
FetchNotifications ==
    {[kind |-> "next", value |-> [status |-> 200, data |-> [results |-> fs]]] : fs \in FrameSeqs}
    \cup {[kind |-> "next", value |-> [status |-> 200, data |-> [results |-> <<"corrupt">>]]]}
    \cup {[kind |-> "error", value |-> [status |-> 0, message |-> "Network Error"]]}
    \cup {[kind |-> "error",
           value |-> [status |-> 500, message |-> "Internal Server Error",
                      data |-> [results |-> fs]]] : fs \in FrameSeqs}

\* toDataQueryResponse throws: a success reply whose frames cannot be decoded
toDataQueryResponseThrows(res) ==
    /\ "data" \in DOMAIN res
    /\ res.status = 200
    /\ "corrupt" \in Range(res.data.results)

DecodeError == [message |-> "failed to decode frame"]

\* toDataQueryResponse: a reply or an error object to one result shape; the
\* failure carries `error` and whatever frames the error payload held
toDataQueryResponse(res) ==
    LET frames == IF "data" \in DOMAIN res THEN res.data.results ELSE <<>>
    IN  IF "status" \in DOMAIN res /\ res.status = 200
        THEN [data |-> frames, state |-> "Done"]
        ELSE [data |-> frames, state |-> "Error", error |-> [message |-> res.message]]

\* map((rsp) => toDataQueryResponse(rsp)): an exception in the callback
\* becomes an error notification
mapResponse(n) ==
    IF n.kind = "next"
    THEN IF toDataQueryResponseThrows(n.value)
         THEN [kind |-> "error", value |-> DecodeError]
         ELSE [kind |-> "next", value |-> toDataQueryResponse(n.value)]
    ELSE n

\* (mutation) no catchError in the pipe
catchErrorMissing(n) == n

\* catchError(err => of(toDataQueryResponse(err)))
catchErrorResponse(n) ==
    IF n.kind = "error"
    THEN IF toDataQueryResponseThrows(n.value)
         THEN [kind |-> "error", value |-> DecodeError]
         ELSE [kind |-> "next", value |-> toDataQueryResponse(n.value)]
    ELSE n

\* the pipe query() returns, applied to what fetch delivers
queryPipe(n) == catchErrorResponse(mapResponse(n))

\* (mutation) a reply is kept and reused: only the first call reaches the transport
fetchMemoized(options, closure) ==
    IF fetchCount > 0
    THEN UNCHANGED <<inflight, fetchCount>>
    ELSE /\ inflight' = Append(inflight, [via |-> "fetch",
                                          url |-> options.url,
                                          method |-> options.method,
                                          requestId |-> options.requestId,
                                          closure |-> closure])
         /\ fetchCount' = fetchCount + 1

\* getBackendSrv().fetch(options): one more call in flight; closure is what
\* the caller's continuation has captured
fetch(options, closure) ==
    /\ inflight' = Append(inflight, [via |-> "fetch",
                                     url |-> options.url,
                                     method |-> options.method,
                                     requestId |-> options.requestId,
                                     closure |-> closure])
    /\ fetchCount' = fetchCount + 1

----------------------------------------------------------------------------
(* Actions: query() called directly, and its observable emitting *)

Idle == [op |-> "idle"]

\* the caller takes note of the latest event and is ready for the next
observe ==
    /\ last # Idle
    /\ last' = Idle
    /\ UNCHANGED <<config, overrides, inflight, fetchCount, dispatched, now, window>>

\* a millisecond passes: Date.now() gives the next value
tick ==
    /\ last = Idle
    /\ now < MaxClock
    /\ now' = now + 1
    /\ UNCHANGED <<config, overrides, inflight, fetchCount, dispatched, last, window>>

query ==
    \E request \in QueryRequests :
        LET o == queryOutcome(request)
        IN  /\ last = Idle
            /\ Dispatchable(request) => dispatched < MaxCalls
            /\ o.kind = "fetch" => Len(inflight) < MaxInFlight
            /\ last' = [op |-> "query", request |-> request, outcome |-> o]
            /\ dispatched' = IF Dispatchable(request) THEN dispatched + 1 ELSE dispatched
            /\ IF o.kind = "fetch"
               THEN fetch(o.options, [caller |-> "query"])
               ELSE UNCHANGED <<inflight, fetchCount>>
            /\ UNCHANGED <<config, overrides, now, window>>

queryEmits ==
    \E i \in DOMAIN inflight, n \in FetchNotifications :
        /\ last = Idle
        /\ inflight[i].via = "fetch"
        /\ inflight[i].closure.caller = "query"
        /\ last' = [op |-> "query.emit", settled |-> n, notification |-> queryPipe(n)]
        /\ inflight' = RemoveAt(inflight, i)
        /\ UNCHANGED <<config, overrides, fetchCount, dispatched, now, window>>

----------------------------------------------------------------------------
(* Inputs of annotationQuery() *)

EmptyObject == [k \in {} |-> k]

\* the query an annotation may carry: visible, hidden, or naming a datasource
\* the table does not hold
AnnotationTargets ==
    {[refId |-> "Anno", datasource |-> NoDatasource, hide |-> FALSE, expr |-> "$v"],
     [refId |-> "Anno", datasource |-> NoDatasource, hide |-> TRUE, expr |-> "$v"],
     [refId |-> "Anno", datasource |-> "gone", hide |-> FALSE, expr |-> "$v"]}

\* options.annotation: the enable flag; `annotation`, the inline query, when
\* there is one; `query`, the model an overridden prepareAnnotationQuery
\* reads, when there is one; `processed`, whether that override supplies a
\* processor
Annotations ==
    {Spread(Spread([enable |-> e, processed |-> pr], inline), model) :
        e \in BOOLEAN, pr \in BOOLEAN,
        inline \in {EmptyObject, [annotation |-> CHOOSE t \in AnnotationTargets : ~t.hide
                                                    /\ t.datasource = NoDatasource]},
        model \in {EmptyObject} \cup {[query |-> t] : t \in AnnotationTargets}}

\* AnnotationQueryRequest: interval / intervalMs are optional
AnnotationRequests ==
    {Spread([annotation |-> a, range |-> TimeRange, rangeRaw |-> [from |-> "now-1h", to |-> "now"],
             dashboard |-> [timezone |-> "utc"], isEditor |-> ed], hints) :
        a \in Annotations, ed \in BOOLEAN,
        hints \in {EmptyObject, [interval |-> "30s", intervalMs |-> 30000]}}

----------------------------------------------------------------------------
(* The annotation collaborators *)

\* getAnnotationsFromFrame(frame): the events read off one frame
getAnnotationsFromFrame(frame) == [events |-> <<[text |-> frame]>>]

\* a processor supplied by prepareAnnotationQuery: one event per frame of the
\* whole response
processor(rsp) == [i \in DOMAIN rsp.data |-> [text |-> rsp.data[i], processed |-> TRUE]]

\* an override of prepareAnnotationQuery, first revision: { query, processor? }
prepareAnnotationQuery(options) ==
    [k \in ({"query"} \cap DOMAIN options.annotation)
           \cup (IF options.annotation.processed THEN {"processor"} ELSE {})
        |-> IF k = "query" THEN options.annotation.query ELSE "processor"]

\* an override of prepareAnnotationQuery, second revision: TQuery | undefined,
\* as a set of at most one query
prepareAnnotationQuery2(options) ==
    IF "query" \in DOMAIN options.annotation THEN {options.annotation.query} ELSE {}

----------------------------------------------------------------------------
(* annotationQuery(), first revision *)

\* (mutation) the enable flag is not looked at
annotationGateIgnoresEnable(options) == "prepareAnnotationQuery" \notin overrides

\* `!this.prepareAnnotationQuery || !!!options.annotation.enable`
annotationGate(options) ==
    \/ "prepareAnnotationQuery" \notin overrides
    \/ ~options.annotation.enable

\* { annotation, ...rest } = options
restOf(options) == [k \in DOMAIN options \ {"annotation"} |-> options[k]]

\* the request handed to this.query
composeRequest(options, q) ==
    Spread(restOf(options),
           [requestId |-> "anno-" \o ToString(now),
            startTime |-> now,
            scopedVars |-> EmptyObject,
            timezone |-> options.dashboard.timezone,
            targets |-> <<q>>])

\* (mutation) a response flagged as failed yields no events
thenEventsChecked(rsp, closure) ==
    IF Len(rsp.data) > 0 /\ rsp.state # "Error"
    THEN IF closure.processor
         THEN [events |-> processor(rsp),
               calls |-> <<[fn |-> "processor", arg |-> rsp]>>]
         ELSE [events |-> getAnnotationsFromFrame(rsp.data[1]).events,
               calls |-> <<[fn |-> "getAnnotationsFromFrame", arg |-> rsp.data[1]]>>]
    ELSE [events |-> <<>>, calls |-> <<>>]

\* the .then callback: rsp to events; calls lists the collaborators it
\* invoked, each with its argument
thenEvents(rsp, closure) ==
    IF Len(rsp.data) > 0
    THEN IF closure.processor
         THEN [events |-> processor(rsp),
               calls |-> <<[fn |-> "processor", arg |-> rsp]>>]
         ELSE [events |-> getAnnotationsFromFrame(rsp.data[1]).events,
               calls |-> <<[fn |-> "getAnnotationsFromFrame", arg |-> rsp.data[1]]>>]
    ELSE [events |-> <<>>, calls |-> <<>>]

\* What annotationQuery(options) does before it returns its promise: the
\* promise is resolved, rejected (query() threw inside the async function),
\* or pending on the fetch that query() issued.
annotationOutcome(options) ==
    IF annotationGate(options)
    THEN [kind |-> "resolved", events |-> <<>>]
    ELSE LET prepared == prepareAnnotationQuery(options)
         IN  IF "query" \notin DOMAIN prepared
             THEN [kind |-> "resolved", events |-> <<>>]
             ELSE LET request == composeRequest(options, prepared.query)
                      closure == [caller |-> "annotationQuery",
                                  processor |-> "processor" \in DOMAIN prepared]
                      o == queryOutcome(request)
                  IN  CASE o.kind = "throw" ->
                             [kind |-> "rejected", error |-> o.error, request |-> request]
                        [] o.kind = "of" ->
                             [kind |-> "resolved",
                              events |-> thenEvents(o.value, closure).events,
                              calls |-> thenEvents(o.value, closure).calls,
                              request |-> request]
                        [] o.kind = "fetch" ->
                             [kind |-> "pending", options |-> o.options, closure |-> closure,
                              request |-> request]

----------------------------------------------------------------------------
(* annotationQuery(), second revision *)

\* (mutation) the inline query stands in when the override returns nothing
annotationTarget2OrInline(options) ==
    IF "prepareAnnotationQuery" \in overrides /\ prepareAnnotationQuery2(options) # {}
    THEN prepareAnnotationQuery2(options)
    ELSE IF "annotation" \in DOMAIN options.annotation
         THEN {options.annotation.annotation}
         ELSE {}

\* the query: the override's, or else options.annotation.annotation
annotationTarget2(options) ==
    IF "prepareAnnotationQuery" \in overrides
    THEN prepareAnnotationQuery2(options)
    ELSE IF "annotation" \in DOMAIN options.annotation
         THEN {options.annotation.annotation}
         ELSE {}

\* `!query || !!!options.annotation.enable`
annotationGate2(found, options) == found = {} \/ ~options.annotation.enable

\* the request handed to this.query
composeRequest2(options, q) ==
    [requestId |-> "anno-" \o ToString(now),
     range |-> options.range,
     rangeRaw |-> options.rangeRaw,
     interval |-> IF "interval" \in DOMAIN options /\ options.interval # ""
                  THEN options.interval ELSE "1m",
     intervalMs |-> IF "intervalMs" \in DOMAIN options /\ options.intervalMs # 0
                    THEN options.intervalMs ELSE 60000,
     startTime |-> now,
     scopedVars |-> EmptyObject,
     app |-> "dash-anno",
     timezone |-> options.dashboard.timezone,
     targets |-> <<q>>]

\* the .then callback: the events of the first frame, the collaborators it
\* invoked, and what it leaves in window.lastAnnotationQuery when the
\* request comes from the editor
thenEvents2(rsp, closure) ==
    IF Len(rsp.data) > 0
    THEN LET info == getAnnotationsFromFrame(rsp.data[1])
         IN  [events |-> info.events,
              calls |-> <<[fn |-> "getAnnotationsFromFrame", arg |-> rsp.data[1]]>>,
              window |-> IF closure.isEditor
                         THEN Spread(window, [lastAnnotationQuery |-> info])
                         ELSE window]
    ELSE [events |-> <<>>, calls |-> <<>>, window |-> window]

annotationOutcome2(options) ==
    LET found == annotationTarget2(options)
    IN  IF annotationGate2(found, options)
        THEN [kind |-> "resolved", events |-> <<>>, window |-> window]
        ELSE LET request == composeRequest2(options, CHOOSE q \in found : TRUE)
                 closure == [caller |-> "annotationQuery2", isEditor |-> options.isEditor]
                 o == queryOutcome(request)
             IN  CASE o.kind = "throw" ->
                        [kind |-> "rejected", error |-> o.error, request |-> request,
                         window |-> window]
                   [] o.kind = "of" ->
                        [kind |-> "resolved",
                         events |-> thenEvents2(o.value, closure).events,
                         calls |-> thenEvents2(o.value, closure).calls,
                         window |-> thenEvents2(o.value, closure).window,
                         request |-> request]
                   [] o.kind = "fetch" ->
                        [kind |-> "pending", options |-> o.options, closure |-> closure,
                         request |-> request, window |-> window]

----------------------------------------------------------------------------
(* Actions: annotationQuery() called, and its promise settling *)

annotationQuery ==
    \E options \in AnnotationRequests :
        LET r == annotationOutcome(options)
        IN  /\ last = Idle
            /\ "request" \in DOMAIN r /\ Dispatchable(r.request) => dispatched < MaxCalls
            /\ r.kind = "pending" => Len(inflight) < MaxInFlight
            /\ last' = [op |-> "annotationQuery", rev |-> 1, options |-> options, result |-> r]
            /\ dispatched' = IF "request" \in DOMAIN r /\ Dispatchable(r.request)
                             THEN dispatched + 1 ELSE dispatched
            /\ IF r.kind = "pending"
               THEN fetch(r.options, r.closure)
               ELSE UNCHANGED <<inflight, fetchCount>>
            /\ UNCHANGED <<config, overrides, now, window>>

annotationThen ==
    \E i \in DOMAIN inflight, n \in FetchNotifications :
        LET rsp == queryPipe(n)
        IN  /\ last = Idle
            /\ inflight[i].via = "fetch"
            /\ inflight[i].closure.caller = "annotationQuery"
            /\ last' = [op |-> "annotationQuery.then", rev |-> 1, settled |-> n, rsp |-> rsp,
                        closure |-> inflight[i].closure,
                        result |-> IF rsp.kind = "error"
                                   THEN [kind |-> "rejected", error |-> rsp.value]
                                   ELSE [kind |-> "resolved",
                                         events |-> thenEvents(rsp.value,
                                                               inflight[i].closure).events,
                                         calls |-> thenEvents(rsp.value,
                                                              inflight[i].closure).calls]]
            /\ inflight' = RemoveAt(inflight, i)
            /\ UNCHANGED <<config, overrides, fetchCount, dispatched, now, window>>

annotationQuery2 ==
    \E options \in AnnotationRequests :
        LET r == annotationOutcome2(options)
        IN  /\ last = Idle
            /\ "request" \in DOMAIN r /\ Dispatchable(r.request) => dispatched < MaxCalls
            /\ r.kind = "pending" => Len(inflight) < MaxInFlight
            /\ last' = [op |-> "annotationQuery", rev |-> 2, options |-> options, result |-> r]
            /\ dispatched' = IF "request" \in DOMAIN r /\ Dispatchable(r.request)
                             THEN dispatched + 1 ELSE dispatched
            /\ IF r.kind = "pending"
               THEN fetch(r.options, r.closure)
               ELSE UNCHANGED <<inflight, fetchCount>>
            /\ window' = r.window
            /\ UNCHANGED <<config, overrides, now>>

annotationThen2 ==
    \E i \in DOMAIN inflight, n \in FetchNotifications :
        LET rsp == queryPipe(n)
        IN  /\ last = Idle
            /\ inflight[i].via = "fetch"
            /\ inflight[i].closure.caller = "annotationQuery2"
            /\ last' = [op |-> "annotationQuery.then", rev |-> 2, settled |-> n, rsp |-> rsp,
                        closure |-> inflight[i].closure,
                        result |-> IF rsp.kind = "error"
                                   THEN [kind |-> "rejected", error |-> rsp.value]
                                   ELSE [kind |-> "resolved",
                                         events |-> thenEvents2(rsp.value,
                                                                inflight[i].closure).events,
                                         calls |-> thenEvents2(rsp.value,
                                                               inflight[i].closure).calls]]
            /\ window' = IF rsp.kind = "error"
                         THEN window
                         ELSE thenEvents2(rsp.value, inflight[i].closure).window
            /\ inflight' = RemoveAt(inflight, i)
            /\ UNCHANGED <<config, overrides, fetchCount, dispatched, now>>

----------------------------------------------------------------------------
(* The resource and health calls *)

\* what the backend may report; "DEGRADED" stands for a status outside the enum
HealthCheckResults ==
    [status : {HealthStatus.Unknown, HealthStatus.OK, HealthStatus.Error, "DEGRADED"},
     message : {"plugin is running", "plugin unavailable"}]

\* how the promise of request settles: with the reply, or with a transport
\* error.  A transport error carries `data`: the payload of a non-2xx reply,
\* or a bare message when there was no reply.
HealthSettlements ==
    {[kind |-> "resolve", value |-> h] : h \in HealthCheckResults}
    \cup {[kind |-> "reject", value |-> [status |-> 500, data |-> h]] : h \in HealthCheckResults}
    \cup {[kind |-> "reject",
           value |-> [status |-> 0, data |-> [message |-> "Unexpected error"]]]}

\* how the promise of get / post settles
ResourceSettlements ==
    {[kind |-> "resolve", value |-> [labels |-> <<"job", "instance">>]],
     [kind |-> "reject", value |-> [status |-> 404, data |-> [message |-> "not found"]]],
     [kind |-> "reject", value |-> [status |-> 0, data |-> [message |-> "Unexpected error"]]]}

\* getBackendSrv().get / post / request: one more call in flight
send(via, method, url, closure) ==
    /\ inflight' = Append(inflight, [via |-> via, url |-> url, method |-> method,
                                     closure |-> closure])
    /\ UNCHANGED fetchCount

resourceUrl(path) == "/api/datasources/" \o ToString(this.id) \o "/resources/" \o path

healthUrl == "/api/datasources/" \o ToString(this.id) \o "/health"

\* what callHealthCheck's promise resolves to: the reply, or the error's data
\* (undefined when the error carries none), as a set of at most one result
healthResult(s) ==
    IF s.kind = "resolve"
    THEN {s.value}
    ELSE IF "data" \in DOMAIN s.value THEN {s.value.data} ELSE {}

\* (mutation) no .catch: a transport error rejects callHealthCheck's promise
callHealthCheckUncaught(s) ==
    IF s.kind = "resolve"
    THEN [kind |-> "resolved", value |-> {s.value}]
    ELSE [kind |-> "rejected", error |-> s.value]

\* how callHealthCheck's promise settles: .then passes the reply on, .catch
\* turns a transport error into a resolution with err.data
callHealthCheckPromise(s) == [kind |-> "resolved", value |-> healthResult(s)]

\* (mutation) everything but ERROR counts as healthy
testSummaryLenient(res) ==
    IF "status" \notin DOMAIN res \/ res.status # HealthStatus.Error
    THEN [status |-> "success", message |-> res.message]
    ELSE [status |-> "fail", message |-> res.message]

\* testDatasource's .then callback
testSummary(res) ==
    IF "status" \in DOMAIN res /\ res.status = HealthStatus.OK
    THEN [status |-> "success", message |-> res.message]
    ELSE [status |-> "fail", message |-> res.message]

getResource ==
    \E path \in {"labels", "series"} :
        /\ last = Idle
        /\ Len(inflight) < MaxInFlight
        /\ send("get", "GET", resourceUrl(path), [caller |-> "getResource"])
        /\ last' = [op |-> "getResource", path |-> path]
        /\ UNCHANGED <<config, overrides, dispatched, now, window>>

postResource ==
    \E path \in {"labels", "series"} :
        /\ last = Idle
        /\ Len(inflight) < MaxInFlight
        /\ send("post", "POST", resourceUrl(path), [caller |-> "postResource"])
        /\ last' = [op |-> "postResource", path |-> path]
        /\ UNCHANGED <<config, overrides, dispatched, now, window>>

\* (mutation) a transport error is turned into a result, as callHealthCheck does
resourcePromiseNormalized(s) ==
    IF s.kind = "resolve"
    THEN [kind |-> "resolved", value |-> s.value]
    ELSE [kind |-> "resolved", value |-> s.value.data]

\* how the promise of getResource / postResource settles: `return
\* getBackendSrv().get(...)` hands on the transport's own outcome
resourcePromise(s) ==
    IF s.kind = "resolve"
    THEN [kind |-> "resolved", value |-> s.value]
    ELSE [kind |-> "rejected", error |-> s.value]

\* the promise of getResource / postResource is the transport's own
resourceSettles ==
    \E i \in DOMAIN inflight, s \in ResourceSettlements :
        /\ last = Idle
        /\ inflight[i].via \in {"get", "post"}
        /\ last' = [op |-> inflight[i].closure.caller \o ".settle", settled |-> s,
                    url |-> inflight[i].url,
                    result |-> resourcePromise(s)]
        /\ inflight' = RemoveAt(inflight, i)
        /\ UNCHANGED <<config, overrides, fetchCount, dispatched, now, window>>

callHealthCheck ==
    /\ last = Idle
    /\ Len(inflight) < MaxInFlight
    /\ send("request", "GET", healthUrl, [caller |-> "callHealthCheck"])
    /\ last' = [op |-> "callHealthCheck"]
    /\ UNCHANGED <<config, overrides, dispatched, now, window>>

callHealthCheckSettles ==
    \E i \in DOMAIN inflight, s \in HealthSettlements :
        /\ last = Idle
        /\ inflight[i].via = "request"
        /\ inflight[i].closure.caller = "callHealthCheck"
        /\ last' = [op |-> "callHealthCheck.settle", settled |-> s,
                    result |-> callHealthCheckPromise(s)]
        /\ inflight' = RemoveAt(inflight, i)
        /\ UNCHANGED <<config, overrides, fetchCount, dispatched, now, window>>

testDatasource ==
    /\ last = Idle
    /\ Len(inflight) < MaxInFlight
    /\ send("request", "GET", healthUrl, [caller |-> "testDatasource"])
    /\ last' = [op |-> "testDatasource"]
    /\ UNCHANGED <<config, overrides, dispatched, now, window>>

\* callHealthCheck's promise resolves and the .then callback runs; reading
\* res.status of an undefined res throws, which rejects the promise
testDatasourceSettles ==
    \E i \in DOMAIN inflight, s \in HealthSettlements :
        /\ last = Idle
        /\ inflight[i].via = "request"
        /\ inflight[i].closure.caller = "testDatasource"
        /\ last' = [op |-> "testDatasource.settle", settled |-> s,
                    result |-> LET p == callHealthCheckPromise(s)
                               IN  IF p.kind = "rejected"
                                   THEN p
                                   ELSE IF p.value = {}
                                   THEN [kind |-> "rejected",
                                         error |-> [name |-> "TypeError"]]
                                   ELSE [kind |-> "resolved",
                                         value |-> testSummary(CHOOSE h \in p.value : TRUE)]]
        /\ inflight' = RemoveAt(inflight, i)
        /\ UNCHANGED <<config, overrides, fetchCount, dispatched, now, window>>

----------------------------------------------------------------------------
Init ==
    /\ config \in Configs
    /\ overrides \in SUBSET Virtuals
    /\ inflight = <<>>
    /\ fetchCount = 0
    /\ dispatched = 0
    /\ last = Idle
    /\ now = 0
    /\ window = EmptyObject

NextQuery == query \/ queryEmits \/ observe

SpecQuery == Init /\ [][NextQuery]_vars

NextAnnotation ==
    annotationQuery \/ annotationThen \/ annotationQuery2 \/ annotationThen2 \/ observe

SpecAnnotation == Init /\ [][NextAnnotation]_vars

NextHealth ==
    \/ getResource \/ postResource \/ resourceSettles
    \/ callHealthCheck \/ callHealthCheckSettles
    \/ testDatasource \/ testDatasourceSettles
    \/ observe

SpecHealth == Init /\ [][NextHealth]_vars

\* the annotation calls while the clock advances
NextClock == NextAnnotation \/ tick

SpecClock == Init /\ [][NextClock]_vars

Next == NextQuery \/ NextClock \/ NextHealth

Spec == Init /\ [][Next]_vars

----------------------------------------------------------------------------
(* Properties of query() *)

\* the targets of a request that filterQuery lets through, as input positions
Survivors(request) ==
    {i \in DOMAIN request.targets :
        "filterQuery" \in overrides => ~request.targets[i].hide}

\* the name looked up in the table for a target that names a datasource
LookupName(q) == IF q.datasource = "default" THEN config.defaultDatasource ELSE q.datasource

\* the surviving, non-expression targets whose name the table does not hold
Offenders(request) ==
    {i \in Survivors(request) :
        /\ request.targets[i].datasource \notin {NoDatasource, ExpressionDatasourceID}
        /\ LookupName(request.targets[i]) \notin DOMAIN config.datasources}

\* the input target a payload target was built from
InputOf(request, p) == CHOOSE q \in Range(request.targets) : q.refId = p.refId

\* C1: a query() call on a request whose target list is empty, or whose
\* targets are all rejected by filterQuery, returns of({data: []}) and does
\* not invoke fetch.
C1_EmptyBatchSkipsTransport ==
    [][(last'.op = "query" /\ Survivors(last'.request) = {})
          => /\ last'.outcome.kind = "of"
             /\ last'.outcome.value = [data |-> <<>>]
             /\ fetchCount' = fetchCount
             /\ inflight' = inflight]_vars

\* C1 happens: a non-empty list, all of it filtered out, answered with the empty result
C1_Witness ==
    /\ last.op = "query"
    /\ Len(last.request.targets) = MaxTargets
    /\ Survivors(last.request) = {}
    /\ last.outcome.kind = "of"

\* C3: when a surviving non-expression target names a datasource the table
\* does not hold, query() throws 'Unknown Datasource: <reference>' for the
\* first such target and nothing is sent: no fetch is made, wherever the
\* target stands in the list.
C3_UnknownDatasourceAbortsBatch ==
    [][(last'.op = "query" /\ Offenders(last'.request) # {})
          => /\ last'.outcome.kind = "throw"
             /\ last'.outcome.error.message =
                  "Unknown Datasource: "
                     \o last'.request.targets[Min(Offenders(last'.request))].datasource
             /\ fetchCount' = fetchCount
             /\ inflight' = inflight]_vars

\* C3 happens: the offender is the last target, behind a resolvable one
C3_Witness ==
    /\ last.op = "query"
    /\ Len(last.request.targets) = MaxTargets
    /\ Offenders(last.request) = {MaxTargets}
    /\ last.request.targets[1].datasource = "prom"
    /\ last.outcome.kind = "throw"
    /\ fetchCount = 0

\* C4: in the payload, a non-expression target carries this.id when it names
\* no datasource, the table's id for config.defaultDatasource when it names
\* "default", and the table's id for its own name otherwise; when the name
\* to look up is not in the table the call throws and fetch is not invoked.
C4_DatasourceIdResolution ==
    [][last'.op = "query"
          => /\ last'.outcome.kind = "fetch" =>
                  \A i \in DOMAIN last'.outcome.options.data.queries :
                      LET p == last'.outcome.options.data.queries[i]
                          q == InputOf(last'.request, p)
                      IN  q.datasource # ExpressionDatasourceID =>
                            p.datasourceId =
                              IF q.datasource = NoDatasource THEN this.id
                              ELSE IF q.datasource = "default"
                                   THEN config.datasources[config.defaultDatasource].id
                                   ELSE config.datasources[q.datasource].id
             /\ Offenders(last'.request) # {} =>
                  /\ last'.outcome.kind = "throw"
                  /\ fetchCount' = fetchCount]_vars

\* C4 happens: a payload with a "default" target and a target without datasource
C4_Witness ==
    /\ last.op = "query"
    /\ last.outcome.kind = "fetch"
    /\ \E i, j \in DOMAIN last.outcome.options.data.queries :
          /\ last.outcome.options.data.queries[i].datasource = "default"
          /\ last.outcome.options.data.queries[i].datasourceId = 2
          /\ last.outcome.options.data.queries[j].datasource = NoDatasource
          /\ last.outcome.options.data.queries[j].datasourceId = 1

\* C5: the payload target of an expression target is the input target with
\* datasourceId = this.id and orgId added, and applyTemplateVariables is not
\* invoked on an expression target during the call.
C5_ExpressionTargetsBypassTemplating ==
    last.op = "query"
       => /\ \A k \in DOMAIN last.outcome.applied :
                last.outcome.applied[k].datasource # ExpressionDatasourceID
          /\ last.outcome.kind = "fetch" =>
                \A i \in Survivors(last.request) :
                    LET q == last.request.targets[i]
                    IN  q.datasource = ExpressionDatasourceID =>
                          \E j \in DOMAIN last.outcome.options.data.queries :
                              last.outcome.options.data.queries[j] =
                                [refId |-> q.refId, datasource |-> q.datasource,
                                 hide |-> q.hide, expr |-> q.expr,
                                 datasourceId |-> this.id,
                                 orgId |-> config.bootData.user.orgId]

\* C5 happens: an expression target is sent along with a templated one while
\* applyTemplateVariables is overridden
C5_Witness ==
    /\ last.op = "query"
    /\ last.outcome.kind = "fetch"
    /\ "applyTemplateVariables" \in overrides
    /\ Len(last.outcome.applied) > 0
    /\ \E j \in DOMAIN last.outcome.options.data.queries :
          /\ last.outcome.options.data.queries[j].datasource = ExpressionDatasourceID
          /\ last.outcome.options.data.queries[j].expr = "$v"
    /\ \E j \in DOMAIN last.outcome.options.data.queries :
          last.outcome.options.data.queries[j].expr = "up"

\* C2: what the observable of a dispatched query() delivers is always a value
\* (next), never an error: for a failed transport call it is
\* toDataQueryResponse of the error, for a reply that cannot be decoded it is
\* toDataQueryResponse of the decoding error.
C2_TransportOutcomesAreNormalized ==
    last.op = "query.emit"
       => /\ last.notification.kind = "next"
          /\ last.settled.kind = "error" =>
                last.notification.value = toDataQueryResponse(last.settled.value)
          /\ (last.settled.kind = "next" /\ toDataQueryResponseThrows(last.settled.value)) =>
                last.notification.value = toDataQueryResponse(DecodeError)

\* C2 happens: the transport call failed with a network error and the caller
\* got a failure result
C2_Witness ==
    /\ last.op = "query.emit"
    /\ last.settled.kind = "error"
    /\ last.settled.value.status = 0
    /\ last.notification.kind = "next"
    /\ last.notification.value.state = "Error"

\* C6: every query() call with a non-empty, resolvable batch invokes fetch
\* exactly once, whatever was sent before: after n such calls fetch has been
\* invoked n times.
C6_OneFetchPerDispatch == fetchCount = dispatched

\* C6 happens: several dispatching calls were made, the latest just now
C6_Witness ==
    /\ last.op = "query"
    /\ last.outcome.kind = "fetch"
    /\ dispatched = MaxCalls
    /\ fetchCount = MaxCalls

----------------------------------------------------------------------------
(* Properties of annotationQuery() *)

\* C7: annotationQuery on a request whose annotation is not enabled resolves
\* to [] and makes no transport call, with or without an override of
\* prepareAnnotationQuery and with or without an inline query.
C7_DisabledAnnotationIsEmpty ==
    [][(last'.op = "annotationQuery" /\ ~last'.options.annotation.enable)
          => /\ last'.result.kind = "resolved"
             /\ last'.result.events = <<>>
             /\ inflight' = inflight
             /\ fetchCount' = fetchCount]_vars

\* C7 happens: a disabled annotation with an override and an inline query at hand
C7_Witness ==
    /\ last.op = "annotationQuery"
    /\ ~last.options.annotation.enable
    /\ "prepareAnnotationQuery" \in overrides
    /\ "query" \in DOMAIN last.options.annotation
    /\ "annotation" \in DOMAIN last.options.annotation
    /\ last.result.kind = "resolved"

\* no query can be found for the request: the override returns none, or
\* there is no override and no inline query
NoQueryResolvable(options) ==
    IF "prepareAnnotationQuery" \in overrides
    THEN "query" \notin DOMAIN options.annotation
    ELSE "annotation" \notin DOMAIN options.annotation

\* C8: annotationQuery on an enabled request for which no query can be found
\* resolves to [], does not reject and makes no transport call.
C8_NoQueryIsEmpty ==
    [][(/\ last'.op = "annotationQuery"
        /\ last'.options.annotation.enable
        /\ NoQueryResolvable(last'.options))
          => /\ last'.result.kind = "resolved"
             /\ last'.result.events = <<>>
             /\ inflight' = inflight
             /\ fetchCount' = fetchCount]_vars

\* C8 happens: the override returns nothing although an inline query exists
C8_Witness ==
    /\ last.op = "annotationQuery"
    /\ last.rev = 2
    /\ last.options.annotation.enable
    /\ "prepareAnnotationQuery" \in overrides
    /\ "query" \notin DOMAIN last.options.annotation
    /\ "annotation" \in DOMAIN last.options.annotation
    /\ last.result.kind = "resolved"
    /\ last.result.events = <<>>

\* C9 as stated: whenever the dispatched query ends in a failure result,
\* annotationQuery resolves to [], whatever the result carries.
C9_FailureYieldsNoEvents ==
    (last.op = "annotationQuery.then" /\ last.rsp.kind = "next"
        /\ last.rsp.value.state = "Error")
       => /\ last.result.kind = "resolved"
          /\ last.result.events = <<>>

----------------------------------------------------------------------------
(* Properties of the health calls *)

\* C10: testDatasource yields status "success" exactly when the health
\* result's status is OK and "fail" for every other status, with the health
\* result's message in both cases.
C10_TestDatasourceSummary ==
    (last.op = "testDatasource.settle" /\ last.result.kind = "resolved")
       => \A h \in (IF last.settled.kind = "resolve"
                    THEN {last.settled.value}
                    ELSE {last.settled.value.data}) :
             /\ last.result.value.status \in {"success", "fail"}
             /\ (last.result.value.status = "success")
                   <=> ("status" \in DOMAIN h /\ h.status = "OK")
             /\ last.result.value.message = h.message

\* C10 happens: a health result with status UNKNOWN, summarised as a failure
C10_Witness ==
    /\ last.op = "testDatasource.settle"
    /\ last.settled.kind = "resolve"
    /\ last.settled.value.status = "UNKNOWN"
    /\ last.result.kind = "resolved"
    /\ last.result.value.status = "fail"


----------------------------------------------------------------------------
(* Further properties of query(): order, inputs, range, filter first *)

\* the j-th surviving position of the request's target list
NthSurvivor(request, j) ==
    CHOOSE k \in Survivors(request) :
        Cardinality({m \in Survivors(request) : m < k}) = j - 1

\* C11: the targets of the payload of one query() call are the surviving
\* input targets in their input order: as many as survive, the j-th payload
\* target built from the j-th survivor, none twice.
C11_PayloadKeepsInputOrder ==
    (last.op = "query" /\ last.outcome.kind = "fetch")
       => LET queries == last.outcome.options.data.queries
          IN  /\ Len(queries) = Cardinality(Survivors(last.request))
              /\ \A j \in DOMAIN queries :
                    queries[j].refId =
                       last.request.targets[NthSurvivor(last.request, j)].refId
              /\ \A i, j \in DOMAIN queries :
                    queries[i].refId = queries[j].refId => i = j

\* C11 happens: the first target is filtered out and the others are sent in
\* their input order
C11_Witness ==
    /\ last.op = "query"
    /\ last.outcome.kind = "fetch"
    /\ Len(last.request.targets) = MaxTargets
    /\ "filterQuery" \in overrides
    /\ last.request.targets[1].hide
    /\ Cardinality(Survivors(last.request)) = MaxTargets - 1
    /\ last.outcome.options.data.queries[1].refId = RefIdOf(2)

\* the fields query() adds to a target of the payload
PayloadFields == {"datasourceId", "orgId", "intervalMs", "maxDataPoints"}

\* C13: query() leaves its input as it found it: every target the map
\* callback ran on is afterwards still the target of the request's list at
\* its position, with none of datasourceId, orgId, intervalMs, maxDataPoints
\* written onto it, and each payload target is an object other than its input
\* target.
C13_InputNotMutated ==
    last.op = "query"
       => /\ \A j \in DOMAIN last.outcome.inputs :
                /\ last.outcome.inputs[j] =
                      last.request.targets[NthSurvivor(last.request, j)]
                /\ DOMAIN last.outcome.inputs[j] \cap PayloadFields = {}
          /\ last.outcome.kind = "fetch" =>
                /\ Len(last.outcome.inputs) = Len(last.outcome.options.data.queries)
                /\ \A j \in DOMAIN last.outcome.options.data.queries :
                      last.outcome.options.data.queries[j] # last.outcome.inputs[j]

\* C13 happens: a payload whose targets carry the added fields, one of them
\* an expression target and one with its expression substituted by an
\* applyTemplateVariables override, while the inputs are as they were
C13_Witness ==
    /\ last.op = "query"
    /\ last.outcome.kind = "fetch"
    /\ "applyTemplateVariables" \in overrides
    /\ Len(last.outcome.inputs) = MaxTargets
    /\ \E j \in DOMAIN last.outcome.inputs :
          /\ last.outcome.inputs[j].datasource = ExpressionDatasourceID
          /\ "datasourceId" \in DOMAIN last.outcome.options.data.queries[j]
    /\ \E j \in DOMAIN last.outcome.inputs :
          /\ last.outcome.inputs[j].expr = "$v"
          /\ last.outcome.options.data.queries[j].expr = "up"

\* the decimal notation of the epoch values the requests use
EpochString(ms) == CASE ms = 1000 -> "1000" [] ms = 2000 -> "2000"

\* C14: the body sent has the range block exactly when the request has a
\* range: then range is the request's range object and from / to are the
\* decimal strings of its bounds in epoch milliseconds; without a range the
\* body has none of range, from, to.
C14_RangeBlockIffRange ==
    (last.op = "query" /\ last.outcome.kind = "fetch")
       => LET body == last.outcome.options.data
          IN  IF "range" \in DOMAIN last.request
              THEN /\ {"range", "from", "to"} \subseteq DOMAIN body
                   /\ body.range = last.request.range
                   /\ body.from = EpochString(last.request.range.from)
                   /\ body.to = EpochString(last.request.range.to)
              ELSE DOMAIN body \cap {"range", "from", "to"} = {}

\* C14 happens: a body sent with the range block of a request from 1000 to 2000
C14_Witness ==
    /\ last.op = "query"
    /\ last.outcome.kind = "fetch"
    /\ "range" \in DOMAIN last.request
    /\ last.outcome.options.data.from = "1000"
    /\ last.outcome.options.data.to = "2000"
    /\ last.outcome.options.data.range.to = 2000

\* C20: the filter comes first: the map callback runs on surviving targets
\* only, so a target filterQuery rejects is neither resolved nor handed to
\* applyTemplateVariables; an unknown datasource named by a rejected target
\* raises no error, and when the survivors all resolve the call reaches
\* fetch with the survivors, whatever the rejected targets name.
C20_FilterBeforeResolution ==
    last.op = "query"
       => LET kept == {last.request.targets[i] : i \in Survivors(last.request)}
          IN  /\ Range(last.outcome.inputs) \subseteq kept
              /\ Range(last.outcome.applied) \subseteq kept
              /\ last.outcome.kind = "throw" =>
                    \E q \in kept :
                        last.outcome.error.message = "Unknown Datasource: " \o q.datasource
              /\ (Survivors(last.request) # {} /\ Offenders(last.request) = {})
                    => /\ last.outcome.kind = "fetch"
                       /\ {p.refId : p \in Range(last.outcome.options.data.queries)}
                             = {q.refId : q \in kept}

\* C20 happens: the first target is rejected and names a datasource the
\* table lacks; the second is sent
C20_Witness ==
    /\ last.op = "query"
    /\ "filterQuery" \in overrides
    /\ Len(last.request.targets) = 2
    /\ last.request.targets[1].hide
    /\ last.request.targets[1].datasource = "gone"
    /\ ~last.request.targets[2].hide
    /\ last.outcome.kind = "fetch"
    /\ Len(last.outcome.options.data.queries) = 1
    /\ last.outcome.options.data.queries[1].refId = RefIdOf(2)

----------------------------------------------------------------------------
(* Further properties of annotationQuery() *)

\* C12: no call writes state that outlives it: no step of any operation
\* changes a global (the window object) or the configuration store, so that
\* the component's only state is the id given at construction.
C12_NoStateOutlivesCall ==
    [][window' = window /\ config' = config]_vars

\* the result a settled annotationQuery promise was computed from: the value
\* the observable delivered, or the empty result of a call that sent nothing
ExtractInput ==
    IF last.op = "annotationQuery.then" THEN last.rsp.value ELSE [data |-> <<>>]

\* a processor was supplied for the call whose promise settles (only the
\* first revision's prepareAnnotationQuery can supply one)
ProcessorSupplied ==
    /\ last.op = "annotationQuery.then"
    /\ last.rev = 1
    /\ last.closure.processor

\* C15: when annotationQuery turns a result into events: with at least one
\* frame and a processor supplied, the processor is called once, with the
\* whole result, and its output is what the promise resolves to; with at
\* least one frame and no processor, getAnnotationsFromFrame is called once,
\* on the first frame, and its events are what the promise resolves to; with
\* no frame the promise resolves to [] and neither is called.
C15_ExtractStep ==
    (\/ last.op = "annotationQuery.then" /\ last.result.kind = "resolved"
     \/ last.op = "annotationQuery" /\ last.result.kind = "resolved"
           /\ "request" \in DOMAIN last.result)
       => LET rsp == ExtractInput
          IN  IF Len(rsp.data) = 0
              THEN last.result.events = <<>> /\ last.result.calls = <<>>
              ELSE IF ProcessorSupplied
              THEN /\ last.result.calls = <<[fn |-> "processor", arg |-> rsp]>>
                   /\ last.result.events = processor(rsp)
              ELSE /\ last.result.calls =
                         <<[fn |-> "getAnnotationsFromFrame", arg |-> rsp.data[1]]>>
                   /\ last.result.events = getAnnotationsFromFrame(rsp.data[1]).events

\* C15 happens: a result of several frames handed whole to the processor
C15_Witness ==
    /\ last.op = "annotationQuery.then"
    /\ last.result.kind = "resolved"
    /\ ProcessorSupplied
    /\ Len(last.rsp.value.data) = MaxFrames
    /\ Len(last.result.calls) = 1
    /\ last.result.calls[1].fn = "processor"
    /\ Len(last.result.events) = MaxFrames

\* the query an annotation request resolves to: the override's when there is
\* an override, the inline one otherwise
ResolvedQuery(options) ==
    IF "prepareAnnotationQuery" \in overrides
    THEN options.annotation.query
    ELSE options.annotation.annotation

\* C16 as stated: annotationQuery on an enabled request with a resolvable
\* query hands query() one request whose only target is the resolved query,
\* with empty scopedVars, the range and the dashboard timezone of the
\* annotation request, and interval / intervalMs equal to the request's when
\* it has them and to '1m' / 60000 when it has not.
C16_AnnotationRequestShape ==
    (/\ last.op = "annotationQuery"
     /\ last.options.annotation.enable
     /\ ~NoQueryResolvable(last.options))
       => /\ "request" \in DOMAIN last.result
          /\ LET r == last.result.request
             IN  /\ r.targets = <<ResolvedQuery(last.options)>>
                 /\ r.scopedVars = EmptyObject
                 /\ r.range = last.options.range
                 /\ r.timezone = last.options.dashboard.timezone
                 /\ {"interval", "intervalMs"} \subseteq DOMAIN r
                 /\ r.interval = IF "interval" \in DOMAIN last.options
                                 THEN last.options.interval ELSE "1m"
                 /\ r.intervalMs = IF "intervalMs" \in DOMAIN last.options
                                   THEN last.options.intervalMs ELSE 60000

\* the annotation requests in flight
AnnotationsInFlight ==
    {i \in DOMAIN inflight :
        inflight[i].closure.caller \in {"annotationQuery", "annotationQuery2"}}

\* C17 as stated: two annotation requests in flight at the same time never
\* carry the same requestId.
C17_InFlightIdsDiffer ==
    \A i, j \in AnnotationsInFlight :
        inflight[i].requestId = inflight[j].requestId => i = j

----------------------------------------------------------------------------
(* Further properties of the health and resource calls *)

\* the transport call a step has added, if it added exactly one
Added == inflight'[Len(inflight')]

\* C18: callHealthCheck makes one transport request (GET on the health path
\* of its own id) and its promise always resolves: to the reply when the
\* transport succeeds, to the error's data when it fails; testDatasource,
\* built on it, makes one such request too and always resolves to an object
\* of exactly status and message, status being "success" or "fail".
C18_HealthCheckAlwaysResolves ==
    [][/\ last'.op \in {"callHealthCheck", "testDatasource"}
          => /\ Len(inflight') = Len(inflight) + 1
             /\ SubSeq(inflight', 1, Len(inflight)) = inflight
             /\ Added.url = "/api/datasources/1/health"
             /\ Added.method = "GET"
       /\ last'.op = "callHealthCheck.settle"
          => /\ last'.result.kind = "resolved"
             /\ last'.result.value =
                  {IF last'.settled.kind = "resolve"
                   THEN last'.settled.value
                   ELSE last'.settled.value.data}
             /\ Len(inflight') = Len(inflight) - 1
       /\ last'.op = "testDatasource.settle"
          => /\ last'.result.kind = "resolved"
             /\ DOMAIN last'.result.value = {"status", "message"}
             /\ last'.result.value.status \in {"success", "fail"}
             /\ Len(inflight') = Len(inflight) - 1]_vars

\* C18 happens: the health request fails without a reply and testDatasource
\* resolves to a failure summary
C18_Witness ==
    /\ last.op = "testDatasource.settle"
    /\ last.settled.kind = "reject"
    /\ last.settled.value.status = 0
    /\ last.result.kind = "resolved"
    /\ last.result.value = [status |-> "fail", message |-> "Unexpected error"]

\* C19: getResource and postResource each make one transport call, a GET /
\* POST on the resource path of the instance's own id, and their promise
\* settles as the transport's does: resolved with the reply as it is,
\* rejected with the very error of the transport.
C19_ResourcePassthrough ==
    [][/\ last'.op \in {"getResource", "postResource"}
          => /\ Len(inflight') = Len(inflight) + 1
             /\ SubSeq(inflight', 1, Len(inflight)) = inflight
             /\ Added.url = "/api/datasources/1/resources/" \o last'.path
             /\ Added.method = IF last'.op = "getResource" THEN "GET" ELSE "POST"
       /\ last'.op \in {"getResource.settle", "postResource.settle"}
          => /\ last'.settled.kind = "resolve"
                  => last'.result = [kind |-> "resolved", value |-> last'.settled.value]
             /\ last'.settled.kind = "reject"
                  => last'.result = [kind |-> "rejected", error |-> last'.settled.value]
             /\ Len(inflight') = Len(inflight) - 1]_vars

\* C19 happens: postResource's call fails with a 404 and the promise rejects
\* with that error
C19_Witness ==
    /\ last.op = "postResource.settle"
    /\ last.settled.kind = "reject"
    /\ last.settled.value.status = 404
    /\ last.result.kind = "rejected"
    /\ last.result.error.status = 404
    /\ last.url = "/api/datasources/1/resources/series"

====
